---- MODULE Spec2Model ----
(***************************************************************************)
(* UltraWatchTogether signalling and room server (src/server.js).          *)
(*                                                                         *)
(* The server is single threaded: every WebSocket event handler runs to    *)
(* completion, so each handler is one action.  A wire string is a sequence *)
(* of tokens; the token " " is whitespace, every other token is an opaque  *)
(* block of non-blank characters (a room name, a uuid, a word).            *)
(*                                                                         *)
(* The messages a handler hands to ws.send are recorded in `sent`, one     *)
(* element per safeSend/broadcast/loop statement of the handler, in        *)
(* program order; the order of the recipients inside one broadcast (the    *)
(* Map's insertion order) is not kept.                                     *)
(***************************************************************************)
EXTENDS Naturals, Sequences, FiniteSets

\* ------------------------------------------------------------ bounds
\* Number of 'message' events the server handles in a run.
MaxMsgs == 4

\* ------------------------------------------------- program constants
\* name is cut to 40 characters (server.js:125)
NameMax == 40
\* chat text is cut to 2000 characters (server.js:213)
ChatMax == 2000

\* ------------------------------------------------------------ values
\* clientId values (uuidv4(), server.js:105), in the order they are handed out:
\* the k-th accepted connection gets the k-th identifier
ConnNames == <<"c1", "c2", "c3">>
Conns == {ConnNames[i] : i \in DOMAIN ConnNames}
\* null / undefined for an identifier
NoConn == "-"
\* null for ws.roomId; the empty string is falsy as well
Null == <<>>
WS == " "

\* inputs a client may put on the wire
RawRoomIds == {<<WS>>, <<WS, "r1", WS>>, <<"r2">>}
\* any role other than "host" means viewer
RawRoles == {"host", "guest"}
\* the display name the client behind each connection sends in its join requests
RawName == [c \in Conns |-> IF c = "c1" THEN <<>> ELSE <<WS, "n_" \o c>>]
\* a missing target, or the identifier of some connection
RawTargets == {<<WS>>} \cup {<<WS, c>> : c \in Conns}
\* the negotiation payload the client behind each connection sends
RawData == [c \in Conns |-> <<"sdp_" \o c>>]
ChatTexts == {<<"hi">>}

VARIABLES
    readyState,   \* ws.readyState of each connection ("NONE" before it is accepted)
    isAlive,      \* ws.isAlive
    wsRoomId,     \* ws.roomId
    wsRole,       \* ws.role
    rooms,        \* the rooms Map: roomId -> [hostId, clients, roles, names]
    sent,         \* what the last handler passed to ws.send
    ev,           \* the last event handled
    handled       \* number of 'message' events handled so far

vars == <<readyState, isAlive, wsRoomId, wsRole, rooms, sent, ev, handled>>

\* ------------------------------------------------------------ strings
Min(a, b) == IF a < b THEN a ELSE b

RECURSIVE TrimStart(_)
TrimStart(s) == IF s # <<>> /\ Head(s) = WS THEN TrimStart(Tail(s)) ELSE s

RECURSIVE TrimEnd(_)
TrimEnd(s) ==
    IF s # <<>> /\ s[Len(s)] = WS THEN TrimEnd(SubSeq(s, 1, Len(s) - 1)) ELSE s

\* String.prototype.trim
Trim(s) == TrimEnd(TrimStart(s))

\* String.prototype.slice(0, n)
Slice(s, n) == SubSeq(s, 1, Min(n, Len(s)))

\* ------------------------------------------------------------ Map helpers
MapSet(m, k, v) == [x \in DOMAIN m \cup {k} |-> IF x = k THEN v ELSE m[x]]
MapDelete(m, k) == [x \in DOMAIN m \ {k} |-> m[x]]

\* the string form of a client id
IdStr(c) == <<c>>

\* a membership test that accepts every target
HasClient_Always(room, to) == TRUE

\* room.clients.has(to) for a string key
HasClient(room, to) == \E c \in room.clients : IdStr(c) = to
\* room.clients.get(to): undefined when there is no such key
ClientOf(room, to) ==
    IF \E c \in room.clients : IdStr(c) = to
    THEN CHOOSE c \in room.clients : IdStr(c) = to
    ELSE NoConn

\* ------------------------------------------------------------ messages
NoRoster == [host |-> NoConn, hostName |-> <<>>, viewers |-> {}]

MsgR(to, type, room, id, body, ros) ==
    [to |-> to, type |-> type, room |-> room, id |-> id, body |-> body, roster |-> ros]

Msg(to, type, room, id, body) == MsgR(to, type, room, id, body, NoRoster)

\* safeSend(ws, obj): dropped unless the socket is OPEN
safeSend(rs, m) == IF m.to # NoConn /\ rs[m.to] = "OPEN" THEN {m} ELSE {}

\* a broadcast that leaves out the connection the message is tagged with
broadcast_SkipsSender(rs, room, type, rid, id, body) ==
    UNION {safeSend(rs, Msg(c, type, rid, id, body)) : c \in room.clients \ {id}}

\* broadcast(room, obj)
broadcast(rs, room, type, rid, id, body) ==
    UNION {safeSend(rs, Msg(c, type, rid, id, body)) : c \in room.clients}

\* ------------------------------------------------------------ room store
NewRoom == [hostId |-> NoConn, clients |-> {}, roles |-> <<>>, names |-> <<>>]

\* a room creation that replaces an entry already in the store
ensureRoom_AlwaysNew(rs, roomId) == MapSet(rs, roomId, NewRoom)

\* ensureRoom(roomId): the entry of the store, created when there is none
ensureRoom(rs, roomId) == IF roomId \in DOMAIN rs THEN rs ELSE MapSet(rs, roomId, NewRoom)

deleteRoom(rs, roomId) == MapDelete(rs, roomId)

roster(room) ==
    [host |-> room.hostId,
     hostName |-> IF room.hostId = NoConn THEN <<>>
                  ELSE IF room.hostId \in DOMAIN room.names THEN room.names[room.hostId]
                  ELSE <<"Host">>,
     viewers |-> {[id |-> c,
                   name |-> IF c \in DOMAIN room.names THEN room.names[c] ELSE <<"Viewer">>] :
                  c \in {x \in DOMAIN room.roles : room.roles[x] = "viewer"}}]

Event(op, c, rid, role, to, body) ==
    [op |-> op, conn |-> c, room |-> rid, role |-> role, to |-> to, body |-> body]

\* ------------------------------------------------------------ initial state
Init ==
    /\ readyState = [c \in Conns |-> "NONE"]
    /\ isAlive = [c \in Conns |-> FALSE]
    /\ wsRoomId = [c \in Conns |-> Null]
    /\ wsRole = [c \in Conns |-> "none"]
    /\ rooms = <<>>
    /\ sent = <<>>
    /\ ev = Event("init", NoConn, Null, "none", <<>>, <<>>)
    /\ handled = 0

\* wss.on("connection"): identifiers are handed out in order
Connect(c) ==
    /\ readyState[c] = "NONE"
    /\ \A i \in DOMAIN ConnNames :
          ConnNames[i] = c => \A j \in 1..(i - 1) : readyState[ConnNames[j]] # "NONE"
    /\ readyState' = [readyState EXCEPT ![c] = "OPEN"]
    /\ isAlive' = [isAlive EXCEPT ![c] = TRUE]
    /\ wsRoomId' = [wsRoomId EXCEPT ![c] = Null]
    /\ wsRole' = [wsRole EXCEPT ![c] = "none"]
    /\ sent' = <<safeSend(readyState', Msg(c, "hello", Null, c, <<>>))>>
    /\ ev' = Event("connect", c, Null, "none", <<>>, <<>>)
    /\ UNCHANGED <<rooms, handled>>

\* a 'message' event is emitted while the socket is OPEN, and while the closing
\* handshake started by ws.close() is still pending
CanReceive(c) == readyState[c] \in {"OPEN", "CLOSING"}

\* ws.on("message"): one more message taken off the wire
Receive(c) ==
    /\ CanReceive(c)
    /\ handled < MaxMsgs
    /\ handled' = handled + 1

\* ------------------------------------------------------------ join
\* const role = msg.role === "host" ? "host" : "viewer"
RoleOf(rawRole) == IF rawRole = "host" THEN "host" ELSE "viewer"

\* String(msg.name || "").trim().slice(0, 40) || (role === "host" ? "Host" : "Viewer")
NameOf(rawName, role) ==
    LET n == Slice(Trim(rawName), NameMax)
    IN  IF n # <<>> THEN n ELSE IF role = "host" THEN <<"Host">> ELSE <<"Viewer">>

\* room.clients.set / room.roles.set / room.names.set
JoinIndexes(room, c, role, name) ==
    [room EXCEPT !.clients = @ \cup {c},
                 !.roles = MapSet(@, c, role),
                 !.names = MapSet(@, c, name)]

\* a takeover that yields to a host already registered
TakeOver_OnlyIfVacant(room, c) ==
    IF room.hostId = NoConn THEN [room EXCEPT !.hostId = c] ELSE room

\* room.hostId = clientId
TakeOver(room, c) == [room EXCEPT !.hostId = c]

\* !room.hostId || !room.clients.get(room.hostId)
NoHostOnline(room) == room.hostId = NoConn \/ room.hostId \notin room.clients

\* a rollback that forgets the display-name index
RollbackIndexes_LeavesName(room, c) ==
    [room EXCEPT !.clients = @ \ {c},
                 !.roles = MapDelete(@, c)]

\* room.clients.delete / room.roles.delete / room.names.delete of a refused viewer
RollbackIndexes(room, c) ==
    [room EXCEPT !.clients = @ \ {c},
                 !.roles = MapDelete(@, c),
                 !.names = MapDelete(@, c)]

\* a notification that goes to every other member
HostReadyTargets_EveryOther(room, c) == room.clients \ {c}

\* the viewers told that the host is ready
HostReadyTargets(room, c) == {x \in DOMAIN room.roles : room.roles[x] = "viewer" /\ x # c}

JoinMissingRoom(c) ==
    /\ sent' = <<safeSend(readyState, Msg(c, "error", Null, NoConn, <<"Missing roomId">>))>>
    /\ UNCHANGED <<readyState, isAlive, wsRoomId, wsRole, rooms>>

JoinAsHost(c, roomId, name) ==
    LET store == ensureRoom(rooms, roomId)
        room == TakeOver(JoinIndexes(store[roomId], c, "host", name), c)
    IN  /\ rooms' = [store EXCEPT ![roomId] = room]
        /\ wsRoomId' = [wsRoomId EXCEPT ![c] = roomId]
        /\ wsRole' = [wsRole EXCEPT ![c] = "host"]
        /\ sent' = << safeSend(readyState, MsgR(c, "joined", roomId, c, <<"host">>, roster(room))),
                      broadcast(readyState, room, "system", Null, NoConn, name \o <<"is hosting room">> \o roomId),
                      UNION {safeSend(readyState, Msg(x, "host_ready", Null, c, <<>>)) :
                             x \in HostReadyTargets(room, c)} >>
        /\ UNCHANGED <<readyState, isAlive>>

JoinAsViewer(c, roomId, name) ==
    LET store == ensureRoom(rooms, roomId)
        room == JoinIndexes(store[roomId], c, "viewer", name)
    IN  IF NoHostOnline(room)
        THEN /\ rooms' = [store EXCEPT ![roomId] = RollbackIndexes(room, c)]
             /\ wsRoomId' = [wsRoomId EXCEPT ![c] = Null]
             /\ wsRole' = [wsRole EXCEPT ![c] = "none"]
             /\ sent' = <<safeSend(readyState, Msg(c, "error", Null, NoConn, <<"Room exists but host is not online yet.">>))>>
             /\ UNCHANGED <<readyState, isAlive>>
        ELSE /\ rooms' = [store EXCEPT ![roomId] = room]
             /\ wsRoomId' = [wsRoomId EXCEPT ![c] = roomId]
             /\ wsRole' = [wsRole EXCEPT ![c] = "viewer"]
             /\ sent' = << safeSend(readyState, MsgR(c, "joined", roomId, room.hostId, <<"viewer">>, roster(room))),
                           safeSend(readyState, Msg(room.hostId, "viewer_joined", roomId, c, name)),
                           broadcast(readyState, room, "system", Null, NoConn, name \o <<"joined.">>) >>
             /\ UNCHANGED <<readyState, isAlive>>

\* ws.on("message"), type === "join"
Join(c, rawRoom, rawRole, rawName) ==
    LET roomId == Trim(rawRoom)
        role == RoleOf(rawRole)
        name == NameOf(rawName, role)
    IN  /\ Receive(c)
        /\ ev' = Event("join", c, roomId, role, <<>>, name)
        /\ IF roomId = <<>> THEN JoinMissingRoom(c)
           ELSE IF role = "host" THEN JoinAsHost(c, roomId, name)
           ELSE JoinAsViewer(c, roomId, name)

\* ------------------------------------------------------------ signal
\* String(msg.to || "").trim()
TargetOf(rawTo) == Trim(rawTo)

\* the relayed message: { type: "signal", roomId, from: clientId, data }
Relayed(c, roomId, target, data) == Msg(target, "signal", roomId, c, data)

\* ws.on("message"), type === "signal"
Signal(c, rawTo, data) ==
    LET roomId == wsRoomId[c]
        to == TargetOf(rawTo)
    IN  /\ Receive(c)
        /\ ev' = Event("signal", c, roomId, wsRole[c], to, data)
        /\ sent' =
             IF roomId = Null
             THEN <<safeSend(readyState, Msg(c, "error", Null, NoConn, <<"Not in a room">>))>>
             ELSE IF roomId \notin DOMAIN rooms
             THEN <<safeSend(readyState, Msg(c, "error", Null, NoConn, <<"Room not found">>))>>
             ELSE IF to = <<>> \/ ~HasClient(rooms[roomId], to)
             THEN <<safeSend(readyState, Msg(c, "error", Null, NoConn, <<"Invalid 'to' target">>))>>
             ELSE <<safeSend(readyState, Relayed(c, roomId, ClientOf(rooms[roomId], to), data))>>
        /\ UNCHANGED <<readyState, isAlive, wsRoomId, wsRole, rooms>>

\* ------------------------------------------------------------ chat
\* room.names.get(clientId) || "User"
SenderName(room, c) == IF c \in DOMAIN room.names THEN room.names[c] ELSE <<"User">>

\* ws.on("message"), type === "chat"
Chat(c, text) ==
    LET roomId == wsRoomId[c]
        message == Slice(text, ChatMax)
    IN  /\ Receive(c)
        /\ ev' = Event("chat", c, roomId, wsRole[c], <<>>, message)
        /\ sent' =
             IF roomId = Null
             THEN <<safeSend(readyState, Msg(c, "error", Null, NoConn, <<"Not in a room">>))>>
             ELSE IF roomId \notin DOMAIN rooms
             THEN <<safeSend(readyState, Msg(c, "error", Null, NoConn, <<"Room not found">>))>>
             ELSE <<broadcast(readyState, rooms[roomId], "chat", roomId, c,
                              SenderName(rooms[roomId], c) \o <<":">> \o message)>>
        /\ UNCHANGED <<readyState, isAlive, wsRoomId, wsRole, rooms>>

\* ------------------------------------------------------------ leave, errors
\* ws.close(): an OPEN socket starts the closing handshake; the 'close' event
\* (OnClose) is emitted later
wsClose(rs, c) == IF rs[c] = "OPEN" THEN [rs EXCEPT ![c] = "CLOSING"] ELSE rs

\* ws.on("message"), type === "leave"
Leave(c) ==
    /\ Receive(c)
    /\ readyState' = wsClose(readyState, c)
    /\ sent' = <<>>
    /\ ev' = Event("leave", c, wsRoomId[c], wsRole[c], <<>>, <<>>)
    /\ UNCHANGED <<isAlive, wsRoomId, wsRole, rooms>>

\* ws.on("message"), JSON.parse throws
InvalidJson(c) ==
    /\ Receive(c)
    /\ sent' = <<safeSend(readyState, Msg(c, "error", Null, NoConn, <<"Invalid JSON">>))>>
    /\ ev' = Event("invalid", c, wsRoomId[c], wsRole[c], <<>>, <<>>)
    /\ UNCHANGED <<readyState, isAlive, wsRoomId, wsRole, rooms>>

\* ws.on("message"), any other type
UnknownType(c) ==
    /\ Receive(c)
    /\ sent' = <<safeSend(readyState, Msg(c, "error", Null, NoConn, <<"Unknown message type">>))>>
    /\ ev' = Event("unknown", c, wsRoomId[c], wsRole[c], <<>>, <<>>)
    /\ UNCHANGED <<readyState, isAlive, wsRoomId, wsRole, rooms>>

\* ws.on("message"), the body is the JSON text null: JSON.parse returns null and
\* msg.type throws a TypeError that nothing catches; the handler sends nothing
\* and the process exits, taking every socket and the room store with it
NullBody(c) ==
    /\ Receive(c)
    /\ readyState' = [x \in Conns |-> "CLOSED"]
    /\ isAlive' = [x \in Conns |-> FALSE]
    /\ wsRoomId' = [x \in Conns |-> Null]
    /\ wsRole' = [x \in Conns |-> "none"]
    /\ rooms' = <<>>
    /\ sent' = <<>>
    /\ ev' = Event("null", c, wsRoomId[c], wsRole[c], <<>>, <<>>)

\* ------------------------------------------------------------ close
\* room.clients.delete / room.roles.delete / room.names.delete of the closed connection
RemoveFromRoom(room, c) ==
    [room EXCEPT !.clients = @ \ {c},
                 !.roles = MapDelete(@, c),
                 !.names = MapDelete(@, c)]

\* for (const otherWs of room.clients.values()) otherWs.close()
CloseAll(rs, room) == [x \in DOMAIN rs |-> IF x \in room.clients THEN wsClose(rs, x)[x] ELSE rs[x]]

\* room.names.get(clientId) || (ws.role === "host" ? "Host" : "Viewer")
LeaverName(room, c) ==
    IF c \in DOMAIN room.names THEN room.names[c]
    ELSE IF wsRole[c] = "host" THEN <<"Host">> ELSE <<"Viewer">>

CloseAsHost(c, roomId, room, rs) ==
    /\ sent' = <<broadcast(rs, room, "host_left", roomId, NoConn, <<"Host left. Room closed.">>)>>
    /\ readyState' = CloseAll(rs, room)
    /\ rooms' = deleteRoom(rooms, roomId)

\* a notice that goes to every member that ever joined as host
ViewerLeftTargets_EveryHostRole(room) ==
    {x \in room.clients : x \in DOMAIN room.roles /\ room.roles[x] = "host"}

\* if (room.hostId && room.clients.has(room.hostId)): who is told viewer_left
ViewerLeftTargets(room) ==
    IF room.hostId # NoConn /\ room.hostId \in room.clients THEN {room.hostId} ELSE {}

CloseAsViewer(c, roomId, room, rs, name) ==
    /\ sent' = << UNION {safeSend(rs, Msg(h, "viewer_left", roomId, c, <<>>)) :
                         h \in ViewerLeftTargets(room)},
                  broadcast(rs, room, "system", Null, NoConn, name \o <<"left.">>) >>
    /\ readyState' = rs
    /\ rooms' = IF room.clients = {} THEN deleteRoom(rooms, roomId)
                ELSE [rooms EXCEPT ![roomId] = room]

\* ws.on("close"): emitted once, when the socket has become CLOSED (the peer went
\* away, the closing handshake finished, or the socket was destroyed)
OnClose(c) ==
    LET roomId == wsRoomId[c]
        rs == [readyState EXCEPT ![c] = "CLOSED"]
    IN  /\ readyState[c] \in {"OPEN", "CLOSING"}
        /\ ev' = Event("close", c, roomId, wsRole[c], <<>>, <<>>)
        /\ IF roomId = Null \/ roomId \notin DOMAIN rooms
           THEN /\ readyState' = rs
                /\ sent' = <<>>
                /\ UNCHANGED rooms
           ELSE LET room == RemoveFromRoom(rooms[roomId], c)
                IN  IF room.hostId = c
                    THEN CloseAsHost(c, roomId, room, rs)
                    ELSE CloseAsViewer(c, roomId, room, rs, LeaverName(rooms[roomId], c))
        /\ UNCHANGED <<isAlive, wsRoomId, wsRole, handled>>

\* ------------------------------------------------------------ keepalive
\* wss.clients: accepted sockets whose 'close' event has not been emitted
WssClients == {c \in Conns : readyState[c] \in {"OPEN", "CLOSING"}}

\* a terminate that leaves the socket as it is
wsTerminate_LeavesOpen(rs, c) == rs

\* ws.terminate(): the socket is destroyed; the 'close' event follows
wsTerminate(rs, c) == [rs EXCEPT ![c] = "CLOSING"]

\* a sweep that terminates every registered connection, pending or not
Sweep_TerminatesEveryone ==
    /\ WssClients # {}
    /\ readyState' = [c \in Conns |->
                        IF c \in WssClients THEN wsTerminate(readyState, c)[c] ELSE readyState[c]]
    /\ isAlive' = [c \in Conns |-> IF c \in WssClients THEN FALSE ELSE isAlive[c]]
    /\ sent' = <<>>
    /\ ev' = Event("sweep", NoConn, Null, "none", <<>>, <<>>)
    /\ UNCHANGED <<wsRoomId, wsRole, rooms, handled>>

\* the setInterval callback
Sweep ==
    /\ WssClients # {}
    /\ readyState' = [c \in Conns |->
                        IF c \in WssClients /\ ~isAlive[c]
                        THEN wsTerminate(readyState, c)[c] ELSE readyState[c]]
    /\ isAlive' = [c \in Conns |-> IF c \in WssClients THEN FALSE ELSE isAlive[c]]
    /\ sent' = <<>>
    /\ ev' = Event("sweep", NoConn, Null, "none", <<>>, <<>>)
    /\ UNCHANGED <<wsRoomId, wsRole, rooms, handled>>

\* ws.on("pong")
Pong(c) ==
    /\ CanReceive(c)
    /\ isAlive' = [isAlive EXCEPT ![c] = TRUE]
    /\ sent' = <<>>
    /\ ev' = Event("pong", c, wsRoomId[c], wsRole[c], <<>>, <<>>)
    /\ UNCHANGED <<readyState, wsRoomId, wsRole, rooms, handled>>

\* ------------------------------------------------------------ specification
Next ==
    \/ \E c \in Conns : Connect(c)
    \/ \E c \in Conns, rr \in RawRoomIds, ro \in RawRoles : Join(c, rr, ro, RawName[c])
    \/ \E c \in Conns, to \in RawTargets : Signal(c, to, RawData[c])
    \/ \E c \in Conns, t \in ChatTexts : Chat(c, t)
    \/ \E c \in Conns : Leave(c)
    \/ \E c \in Conns : InvalidJson(c)
    \/ \E c \in Conns : UnknownType(c)
    \/ \E c \in Conns : NullBody(c)
    \/ \E c \in Conns : OnClose(c)

Spec == Init /\ [][Next]_vars

\* the keepalive timer running beside the handlers that change connection and
\* membership state (relay messages change neither), all clients using one room
LiveRoomIds == {<<WS>>, <<WS, "r1", WS>>}

NextLive ==
    \/ \E c \in Conns : Connect(c)
    \/ \E c \in Conns, rr \in LiveRoomIds, ro \in RawRoles : Join(c, rr, ro, RawName[c])
    \/ \E c \in Conns : Leave(c)
    \/ \E c \in Conns : OnClose(c)
    \/ Sweep
    \/ \E c \in Conns : Pong(c)

SpecLive == Init /\ [][NextLive]_vars

\* the 'close' event of a socket on which close() or terminate() was called
CloseEmitted(c) == readyState[c] = "CLOSING" /\ OnClose(c)

\* the keepalive timer beside connections that join one room and go away: the
\* interval timer keeps firing, and a socket that is being closed gets its
\* 'close' event
ReapRoomId == <<WS, "r1", WS>>

NextReap ==
    \/ \E c \in Conns : Connect(c)
    \/ \E c \in Conns, ro \in RawRoles : Join(c, ReapRoomId, ro, RawName[c])
    \/ \E c \in Conns : OnClose(c)
    \/ Sweep
    \/ \E c \in Conns : Pong(c)

SpecReap ==
    /\ Init /\ [][NextReap]_vars
    /\ WF_vars(Sweep)
    /\ \A c \in Conns : WF_vars(CloseEmitted(c))

\* ------------------------------------------------------------ vocabulary of the claims
\* the room identifiers the inputs can name
RoomIds == {Trim(x) : x \in RawRoomIds} \ {<<>>}

\* every message the last handler sent
AllSent == UNION {sent[i] : i \in DOMAIN sent}

\* the key sets of a room's three indexes (empty for a room not in the store)
Keys(rs, r) ==
    IF r \in DOMAIN rs
    THEN [clients |-> rs[r].clients, roles |-> DOMAIN rs[r].roles, names |-> DOMAIN rs[r].names]
    ELSE [clients |-> {}, roles |-> {}, names |-> {}]

\* c is a key of one of the three indexes of room r
IsKey(rs, r, c) == c \in Keys(rs, r).clients \cup Keys(rs, r).roles \cup Keys(rs, r).names

\* the step just taken handled a 'message' event
MessageStep == handled' = handled + 1

\* the step just taken is a join request of c for room r with the given role
JoinStep(c, r, role) ==
    /\ ev'.op = "join"
    /\ MessageStep
    /\ ev' = Event("join", c, r, role, <<>>, NameOf(RawName[c], role))

\* the step just taken ran the close handler of c
CloseStep(c) == ev'.op = "close" /\ readyState[c] # "CLOSED" /\ readyState'[c] = "CLOSED"

\* the members of r registered with role "viewer"
Viewers(r) == {v \in rooms[r].clients : v \in DOMAIN rooms[r].roles /\ rooms[r].roles[v] = "viewer"}

\* members of r that lost the host role to a later host join
Superseded(r) == {c \in rooms[r].clients : c # rooms[r].hostId /\ rooms[r].roles[c] = "host"}

\* ------------------------------------------------------------ C1
\* C1: in every reachable state every room of the store has the same set of
\* connection identifiers as keys of its clients, roles and names indexes.
C1_IndexConsistency ==
    \A r \in DOMAIN rooms :
        /\ rooms[r].clients = DOMAIN rooms[r].roles
        /\ rooms[r].clients = DOMAIN rooms[r].names

\* a member has just been removed by its close handler from a room that keeps
\* other members
C1_Witness ==
    /\ ev.op = "close"
    /\ ev.room \in DOMAIN rooms
    /\ ev.conn \notin rooms[ev.room].clients
    /\ Cardinality(rooms[ev.room].clients) >= 2

\* ------------------------------------------------------------ C2
\* C2: a viewer join (from an open connection) to a room that has no registered
\* host, or whose host connection has closed, is answered with an error, is not
\* acknowledged, and leaves the key sets of the room's three indexes unchanged.
C2_ViewerJoinGating ==
    [][\A c \in Conns : \A r \in RoomIds :
          ( /\ JoinStep(c, r, "viewer")
            /\ readyState[c] = "OPEN"
            /\ \/ r \notin DOMAIN rooms
               \/ rooms[r].hostId = NoConn
               \/ readyState[rooms[r].hostId] = "CLOSED" )
          => /\ \E m \in AllSent' : m.to = c /\ m.type = "error"
             /\ ~\E m \in AllSent' : m.type = "joined"
             /\ Keys(rooms', r) = Keys(rooms, r)]_vars

\* ------------------------------------------------------------ C3
\* C3: when the connection that is a room's hostId closes while the room has
\* viewers, every viewer with an open socket is sent host_left, no viewer is
\* left open, and the room is gone from the store.
C3_HostDepartureCascade ==
    [][\A c \in Conns : \A r \in DOMAIN rooms :
          ( /\ CloseStep(c)
            /\ rooms[r].hostId = c
            /\ \E v \in Viewers(r) \ {c} : readyState[v] = "OPEN" )
          => /\ \A v \in Viewers(r) \ {c} :
                  /\ readyState[v] = "OPEN" =>
                        \E m \in AllSent' : m.to = v /\ m.type = "host_left"
                  /\ readyState'[v] # "OPEN"
             /\ r \notin DOMAIN rooms']_vars

\* ------------------------------------------------------------ C4
\* C4: a signal sent by A naming another connection B, both open and both members
\* of a room R, puts exactly one message on the wire: the signal for B, from A,
\* with the data as sent.
C4_RelayCorrectness ==
    [][\A a \in Conns : \A b \in Conns : \A r \in DOMAIN rooms :
          ( /\ ev'.op = "signal"
            /\ MessageStep
            /\ ev' = Event("signal", a, wsRoomId[a], wsRole[a], IdStr(b), RawData[a])
            /\ a # b
            /\ readyState[a] = "OPEN" /\ readyState[b] = "OPEN"
            /\ a \in rooms[r].clients /\ b \in rooms[r].clients )
          => \E m \in AllSent' :
                /\ AllSent' = {m}
                /\ m.to = b /\ m.type = "signal" /\ m.id = a /\ m.body = RawData[a]]_vars

\* ------------------------------------------------------------ C5
\* C5: after a host join the room's hostId is the joiner, and a member that was
\* superseded as host stays a key of the room's three indexes for as long as
\* its socket stays open.
C5_HostTakeover ==
    [][/\ \A c \in Conns : \A r \in RoomIds :
            JoinStep(c, r, "host") => r \in DOMAIN rooms' /\ rooms'[r].hostId = c
       /\ \A r \in DOMAIN rooms : \A c \in Superseded(r) :
            readyState'[c] = "OPEN" =>
                /\ r \in DOMAIN rooms'
                /\ c \in rooms'[r].clients
                /\ c \in DOMAIN rooms'[r].roles
                /\ c \in DOMAIN rooms'[r].names]_vars

\* a second host has just joined a room whose first host is still connected
C5_Witness ==
    /\ ev.op = "join" /\ ev.role = "host"
    /\ ev.room \in DOMAIN rooms
    /\ rooms[ev.room].hostId = ev.conn
    /\ \E c \in Superseded(ev.room) : readyState[c] = "OPEN"

\* ------------------------------------------------------------ C6
\* C6: in every room at most one identifier has role "host", and an identifier
\* with role "host" is the room's hostId.
C6_SingleHostRole ==
    \A r \in DOMAIN rooms : \A c \in DOMAIN rooms[r].roles :
        rooms[r].roles[c] = "host" => c = rooms[r].hostId

\* ------------------------------------------------------------ C7
\* C7: no room of the store has as hostId a connection whose close handler has run.
C7_NoRoomOutlivesHost ==
    \A r \in DOMAIN rooms :
        rooms[r].hostId # NoConn => readyState[rooms[r].hostId] # "CLOSED"

\* ------------------------------------------------------------ C8
\* C8: a connection whose close handler has run is a key of no index of any room.
C8_TeardownComplete ==
    \A c \in Conns : readyState[c] = "CLOSED" =>
        \A r \in DOMAIN rooms : ~IsKey(rooms, r, c)

\* ------------------------------------------------------------ C9
\* C9: an open connection is a key of a room's indexes exactly when that room
\* is its ws.roomId.
C9_SingleMembership ==
    \A c \in Conns : readyState[c] = "OPEN" =>
        /\ \A r \in DOMAIN rooms : IsKey(rooms, r, c) <=> wsRoomId[c] = r
        /\ wsRoomId[c] # Null => wsRoomId[c] \in DOMAIN rooms

\* ------------------------------------------------------------ C10
\* C10: a viewer join refused for want of a live host changes neither the room
\* store nor the joiner's ws.roomId and ws.role.
C10_RejectedJoinFrame ==
    [][\A c \in Conns : \A r \in RoomIds :
          ( /\ JoinStep(c, r, "viewer")
            /\ \E m \in AllSent' : m.to = c /\ m.type = "error" )
          => /\ rooms' = rooms
             /\ wsRoomId' = wsRoomId
             /\ wsRole' = wsRole]_vars

\* ------------------------------------------------------------ C11
\* C11: a chat message from a connection S that is a member of its room (the room
\* of ws.roomId) puts on the wire exactly one chat message for every member of
\* that room whose socket is open, S included, each tagged with S's identifier,
\* S's display name in that room and the text, and nothing for anyone else.
C11_ChatBroadcast ==
    [][\A s \in Conns : \A r \in DOMAIN rooms :
          ( /\ ev'.op = "chat"
            /\ MessageStep
            /\ ev'.conn = s
            /\ wsRoomId[s] = r
            /\ s \in rooms[r].clients )
          => AllSent' = {Msg(c, "chat", r, s, rooms[r].names[s] \o <<":">> \o ev'.body) :
                            c \in {x \in rooms[r].clients : readyState[x] = "OPEN"}}]_vars

\* a chat of an open member has just reached the sender and another member
C11_Witness ==
    /\ ev.op = "chat"
    /\ ev.room \in DOMAIN rooms
    /\ ev.conn \in rooms[ev.room].clients
    /\ \E m \in AllSent : m.type = "chat" /\ m.to = ev.conn /\ m.id = ev.conn
    /\ \E m \in AllSent : m.type = "chat" /\ m.to # ev.conn /\ m.id = ev.conn

\* ------------------------------------------------------------ C12
\* C12: a registered connection that was probed by a sweep and stays silent is
\* closed (unless its pong is processed after all): its socket reaches CLOSED,
\* which takes it out of the registry; the close handler of a connection runs
\* only in the step that takes its socket to CLOSED, and a CLOSED socket stays
\* CLOSED, so the handler runs exactly once.
C12_LivenessReaping ==
    /\ \A c \in Conns :
          (c \in WssClients /\ ~isAlive[c]) ~> (readyState[c] = "CLOSED" \/ isAlive[c])
    /\ [][\A c \in Conns :
            /\ (ev'.op = "close" /\ ev'.conn = c) =>
                   readyState[c] # "CLOSED" /\ readyState'[c] = "CLOSED"
            /\ readyState[c] = "CLOSED" => readyState'[c] = "CLOSED"]_vars

\* the close handler has run for a member that a sweep terminated for silence
C12_Witness ==
    /\ ev.op = "close"
    /\ ev.room # Null
    /\ readyState[ev.conn] = "CLOSED"
    /\ ~isAlive[ev.conn]

\* ------------------------------------------------------------ C13
\* C13: a host join to a room identifier creates the entry when the store has
\* none and otherwise joins the entry that is there: afterwards the store has
\* the entry for that identifier, the joiner and every earlier member are its
\* members with the earlier members' roles and names kept, and every other room
\* of the store is as before. So two host joins to an unused identifier, in
\* either order, end in one entry holding both connections.
C13_IdempotentCreation ==
    [][\A c \in Conns : \A r \in RoomIds :
          JoinStep(c, r, "host") =>
            /\ DOMAIN rooms' = DOMAIN rooms \cup {r}
            /\ \A q \in DOMAIN rooms \ {r} : rooms'[q] = rooms[q]
            /\ rooms'[r].clients = Keys(rooms, r).clients \cup {c}
            /\ \A x \in Keys(rooms, r).clients \ {c} :
                  /\ rooms'[r].roles[x] = rooms[r].roles[x]
                  /\ rooms'[r].names[x] = rooms[r].names[x]]_vars

\* two connections that both host-joined the same room are its only members
C13_Witness ==
    /\ ev.op = "join" /\ ev.role = "host"
    /\ ev.room \in DOMAIN rooms
    /\ Cardinality(rooms[ev.room].clients) = 2
    /\ \A x \in rooms[ev.room].clients :
          rooms[ev.room].roles[x] = "host" /\ wsRoomId[x] = ev.room

\* ------------------------------------------------------------ C14
\* C14: a signal or chat message from a connection that is a member of no room
\* puts nothing on the wire except an error reply to its sender.
C14_JoinRequiredBeforeRelay ==
    [][\A s \in Conns :
          ( /\ ev'.op \in {"signal", "chat"}
            /\ MessageStep
            /\ ev'.conn = s
            /\ \A r \in DOMAIN rooms : s \notin rooms[r].clients )
          => \A m \in AllSent' : m.to = s /\ m.type = "error"]_vars

\* ------------------------------------------------------------ C15
\* C15: a signal whose target is missing, or is not the identifier of a member
\* of the sender's room (the room of ws.roomId), puts nothing on the wire except
\* an error for the sender, which is sent when the sender's socket is open, and
\* changes neither the room store nor any connection's room and role.
C15_RelayToNonMember ==
    [][\A s \in Conns :
          ( /\ ev'.op = "signal"
            /\ MessageStep
            /\ ev'.conn = s
            /\ \/ ev'.to = <<>>
               \/ wsRoomId[s] \notin DOMAIN rooms
               \/ ~\E c \in rooms[wsRoomId[s]].clients : IdStr(c) = ev'.to )
          => /\ \A m \in AllSent' : m.to = s /\ m.type = "error"
             /\ readyState[s] = "OPEN" => AllSent' # {}
             /\ rooms' = rooms
             /\ wsRoomId' = wsRoomId
             /\ wsRole' = wsRole]_vars

\* a member of a room has just been refused a signal to an open connection
\* that is a member of another room
C15_Witness ==
    /\ ev.op = "signal"
    /\ ev.room \in DOMAIN rooms
    /\ ev.conn \in rooms[ev.room].clients
    /\ \E c \in Conns :
          /\ IdStr(c) = ev.to
          /\ readyState[c] = "OPEN"
          /\ c \notin rooms[ev.room].clients
          /\ \E q \in DOMAIN rooms : c \in rooms[q].clients
    /\ \E m \in AllSent : m.to = ev.conn /\ m.type = "error"

\* ------------------------------------------------------------ C16
\* C16: a message from an open connection that is not a request the server
\* knows (a body that is not JSON, a body that is JSON but carries no readable
\* type, or a type other than join, signal, chat and leave) is answered with
\* exactly one error sent to its sender, and changes no socket state, no room
\* and no connection's room identifier and role.
C16_MalformedRequest ==
    [][\A s \in Conns :
          ( /\ ev'.op \in {"invalid", "unknown", "null"}
            /\ MessageStep
            /\ ev'.conn = s
            /\ readyState[s] = "OPEN" )
          => /\ Len(sent') = 1
             /\ \E m \in sent'[1] : sent'[1] = {m} /\ m.to = s /\ m.type = "error"
             /\ readyState' = readyState
             /\ rooms' = rooms
             /\ wsRoomId' = wsRoomId
             /\ wsRole' = wsRole]_vars

\* ------------------------------------------------------------ C17
\* C17: when the socket of a member of room r that is not r's hostId closes, the
\* host of r, if it is a member with an open socket, is sent viewer_left with
\* the departed identifier, every remaining member with an open socket is sent
\* the departure notice, and r is gone from the store if the departed was its
\* last member and otherwise stays with the same hostId and without the
\* departed.
C17_ViewerDeparture ==
    [][\A c \in Conns : \A r \in DOMAIN rooms :
          ( /\ CloseStep(c)
            /\ c \in rooms[r].clients
            /\ rooms[r].hostId # c )
          => LET rest == rooms[r].clients \ {c}
                 h == rooms[r].hostId
             IN  /\ (h \in rest /\ readyState[h] = "OPEN") =>
                        \E m \in AllSent' : m.to = h /\ m.type = "viewer_left" /\ m.id = c
                 /\ \A x \in rest : readyState[x] = "OPEN" =>
                        \E m \in AllSent' : m.to = x /\ m.type = "system"
                 /\ rest = {} <=> r \notin DOMAIN rooms'
                 /\ r \in DOMAIN rooms' =>
                        rooms'[r].hostId = h /\ rooms'[r].clients = rest]_vars

\* ------------------------------------------------------------ C18
\* C18: every viewer_joined and viewer_left message goes to the connection that
\* is the hostId of the message's room when the event is handled, so a member
\* that was superseded as host gets none; and whenever a system or chat
\* broadcast goes out in a room, every superseded host of that room whose
\* socket is open is among its recipients.
C18_HostOnlyNotices ==
    [][/\ \A m \in AllSent' :
            m.type \in {"viewer_joined", "viewer_left"} =>
                /\ m.room \in DOMAIN rooms /\ rooms[m.room].hostId = m.to
                /\ m.room \in DOMAIN rooms' /\ rooms'[m.room].hostId = m.to
       /\ \A r \in DOMAIN rooms' : \A c \in Superseded(r)' : \A t \in {"system", "chat"} :
            ( /\ ev'.room = r
              /\ readyState'[c] = "OPEN"
              /\ \E m \in AllSent' : m.type = t )
            => \E m \in AllSent' : m.type = t /\ m.to = c]_vars

\* a viewer has just joined a room that has a superseded host with an open
\* socket: the current host got viewer_joined, the superseded one only the
\* system notice
C18_Witness ==
    /\ ev.op = "join" /\ ev.role = "viewer"
    /\ ev.room \in DOMAIN rooms
    /\ \E m \in AllSent : m.type = "viewer_joined" /\ m.to = rooms[ev.room].hostId
    /\ \E c \in Superseded(ev.room) :
          /\ readyState[c] = "OPEN"
          /\ \E m \in AllSent : m.type = "system" /\ m.to = c
          /\ ~\E m \in AllSent : m.type = "viewer_joined" /\ m.to = c

\* ------------------------------------------------------------ C19
\* C19: a host join sends, in this order, the joined acknowledgment to the
\* joiner, the system notice, and then one host_ready carrying the joiner's
\* identifier to each other connection with an open socket whose role in the
\* room is "viewer"; no host_ready goes to the joiner or to a connection whose
\* role in the room is "host", and none is sent before the acknowledgment.
C19_HostReady ==
    [][\A c \in Conns : \A r \in RoomIds :
          JoinStep(c, r, "host") =>
            /\ Len(sent') = 3
            /\ readyState[c] = "OPEN" =>
                  \E m \in sent'[1] : sent'[1] = {m} /\ m.to = c /\ m.type = "joined"
            /\ \A i \in {1, 2} : \A m \in sent'[i] : m.type # "host_ready"
            /\ sent'[3] = {Msg(x, "host_ready", Null, c, <<>>) :
                              x \in {v \in DOMAIN rooms'[r].roles \ {c} :
                                        /\ rooms'[r].roles[v] = "viewer"
                                        /\ readyState[v] = "OPEN"}}
            /\ \A m \in sent'[3] : rooms'[r].roles[m.to] # "host"]_vars

\* a host has just joined a room that holds an open viewer, which got
\* host_ready, and an open member with role host, which did not
C19_Witness ==
    /\ ev.op = "join" /\ ev.role = "host"
    /\ ev.room \in DOMAIN rooms
    /\ \E v \in Viewers(ev.room) :
          \E m \in AllSent : m.type = "host_ready" /\ m.to = v /\ m.id = ev.conn
    /\ \E h \in Superseded(ev.room) :
          /\ readyState[h] = "OPEN"
          /\ ~\E m \in AllSent : m.type = "host_ready" /\ m.to = h

\* ------------------------------------------------------------ C20
\* C20: a sweep terminates every registered connection whose flag is pending
\* (isAlive false) and no other connection, and leaves every other registered
\* connection as it is with its flag set to pending; accepting a connection
\* and processing its pong clear the flag, and no step but a sweep sets it to
\* pending. So a connection whose pong is processed between every two
\* consecutive sweeps is never terminated by a sweep.
C20_SweepSelectivity ==
    [][\A c \in Conns :
          /\ ev'.op = "sweep" =>
                /\ (c \in WssClients /\ ~isAlive[c]) => readyState'[c] = "CLOSING"
                /\ (c \in WssClients /\ isAlive[c]) =>
                        readyState'[c] = readyState[c] /\ ~isAlive'[c]
                /\ c \notin WssClients => readyState'[c] = readyState[c]
          /\ (ev'.op \in {"pong", "connect"} /\ ev'.conn = c) => isAlive'[c]
          /\ (ev'.op # "sweep" /\ c \in WssClients /\ isAlive[c]) => isAlive'[c]]_vars

\* a sweep has just run over a room that has a member whose socket is being
\* closed and a member whose socket it left open
C20_Witness ==
    /\ ev.op = "sweep"
    /\ \E r \in DOMAIN rooms : \E c \in rooms[r].clients : \E d \in rooms[r].clients :
          /\ readyState[c] = "CLOSING" /\ wsRoomId[c] = r
          /\ readyState[d] = "OPEN" /\ wsRoomId[d] = r

\* ------------------------------------------------------------ C21
\* C21: every room of the store has members, and its hostId is set and is a key
\* of its clients, roles and names indexes.
C21_ActiveRoomHasHost ==
    \A r \in DOMAIN rooms :
        /\ rooms[r].clients # {}
        /\ rooms[r].hostId # NoConn
        /\ rooms[r].hostId \in rooms[r].clients
        /\ rooms[r].hostId \in DOMAIN rooms[r].roles
        /\ rooms[r].hostId \in DOMAIN rooms[r].names

\* ------------------------------------------------------------ C22
\* C22: in every room whose hostId is set, the role registered for hostId is
\* "host", and the roster computed for the room does not list hostId among the
\* viewers.
C22_HostRoleAgrees ==
    \A r \in DOMAIN rooms :
        rooms[r].hostId # NoConn =>
            /\ rooms[r].hostId \in DOMAIN rooms[r].roles
            /\ rooms[r].roles[rooms[r].hostId] = "host"
            /\ \A v \in roster(rooms[r]).viewers : v.id # rooms[r].hostId

\* ------------------------------------------------------------ C23
\* C23: a viewer that was evicted from room r (close() called on it, its
\* close handler not yet run, ws.roomId still r) while a new room with the
\* identifier r, made by a host join, is in the store, of which it is not a
\* member: its signal, its chat and its close handler leave the new room as it
\* is and put no message on the wire for any member of the new room.
C23_NoLeakIntoRecreatedRoom ==
    [][\A c \in Conns : \A r \in DOMAIN rooms :
          ( /\ ev'.op \in {"signal", "chat", "close"}
            /\ ev'.conn = c
            /\ MessageStep \/ CloseStep(c)
            /\ readyState[c] = "CLOSING"
            /\ wsRoomId[c] = r /\ wsRole[c] = "viewer"
            /\ c \notin rooms[r].clients
            /\ rooms[r].hostId # NoConn )
          => /\ r \in DOMAIN rooms' /\ rooms'[r] = rooms[r]
             /\ \A m \in AllSent' : m.to \notin rooms[r].clients]_vars

====
